---------------------------- MODULE Spec2Model ----------------------------
(***************************************************************************)
(* Model of the MultiCore lab programs.                                    *)
(*                                                                         *)
(*   Lab6 "Step2 - Table.cu": the matrix-multiplication benchmark (driver  *)
(*   loop of main, matrixMultiply with its kernel matrixMulCUDA,           *)
(*   serialMultiply, constantInit, checkCorrectness).                      *)
(*                                                                         *)
(*   Lab5 "MattAdd.cu": the matrix-addition lab (main, fillMat,            *)
(*   addWithCuda with its kernel addKernel), and its host-only version     *)
(*   "part_000" (main, fillMat, addMat).                                   *)
(*                                                                         *)
(* Specifications:                                                         *)
(*   Spec       the benchmark process: main, both multipliers, the kernel  *)
(*              workers running asynchronously to the host.                *)
(*   SpecFault  Spec with one element of a result changed before its check.*)
(*   SpecCheck  checkCorrectness applied to arbitrary small matrices.      *)
(*   SpecMul    one output element computed by one kernel worker and by    *)
(*              the serial loops, for every element of every small shape.  *)
(*   SpecIter   sequences of driver iterations, a multiplier call a step.  *)
(*   SpecAdd    the matrix-addition lab: addWithCuda and its kernel.       *)
(*   SpecFill   the host-only matrix-addition lab: fillMat and addMat.     *)
(***************************************************************************)
EXTENDS Integers, Sequences, FiniteSets

(***************************************************************************)
(* Bounds of the model.                                                    *)
(***************************************************************************)
\* worker-group and group-count shapes typed by the operator: -MaxNeg..MaxShape
MaxShape == 3
MaxNeg == 1
\* largest worker grid explored with all its interleavings (workers = n*n)
MaxWorkers == 9
\* driver iterations started
MaxIter == 2
\* largest matrix dimension handed to the checker in SpecCheck
MaxCheckN == 3
\* largest matrix dimension in SpecMul
MaxMulN == 6
\* largest matrix dimension and number of driver iterations in SpecIter
MaxIterN == 2
MaxRuns == 3
\* SpecAdd: largest matSizeX and matSizeY, largest number of kernel threads
\* explored with all their interleavings (threads = matSizeX * matSizeY)
MaxDim == 3
MaxThreads == 6
\* SpecFill: largest matSizeX and matSizeY
MaxFillDim == 4

(***************************************************************************)
(* IEEE-754 binary32 arithmetic on non-negative values, round to nearest   *)
(* even.  A float is [m, e] with value m * 2^e, m = 0 or 2^23 <= m < 2^24. *)
(* The program's data are C floats (float* buffers, float accumulators),   *)
(* and checkCorrectness compares them with exact equality.                 *)
(***************************************************************************)
F(m, e) == [m |-> m, e |-> e]
Zero == F(0, 0)
\* indeterminate content of storage that was allocated and never written
Undef == F(-1, 0)

BitLen(S) == CHOOSE k \in 1..30 : 2^(k-1) <= S /\ S < 2^k

\* the float nearest to S * 2^e, for an integer 0 < S < 2^30
RoundNorm(S, e) ==
    LET len == BitLen(S)
    IN  IF len <= 24
        THEN F(S * 2^(24 - len), e - (24 - len))
        ELSE LET k    == len - 24
                 q    == S \div 2^k
                 r    == S % 2^k
                 half == 2^(k-1)
                 up   == r > half \/ (r = half /\ q % 2 = 1)
                 q2   == IF up THEN q + 1 ELSE q
             IN  IF q2 = 2^24 THEN F(2^23, e + k + 1) ELSE F(q2, e + k)

\* float + float: the smaller operand is aligned with three extra bits
\* (guard, round, sticky) and the sum rounded once
Fadd(a, b) ==
    IF a.m = 0 THEN b
    ELSE IF b.m = 0 THEN a
    ELSE LET hi == IF a.e >= b.e THEN a ELSE b
             lo == IF a.e >= b.e THEN b ELSE a
             d  == hi.e - lo.e
             X  == hi.m * 8
             Y8 == lo.m * 8
             Y  == IF d > 27 THEN 1
                   ELSE LET q == Y8 \div 2^d
                            s == Y8 % 2^d # 0
                        IN  IF s /\ q % 2 = 0 THEN q + 1 ELSE q
         IN  RoundNorm(X + Y, hi.e - 3)

\* float * float: the exact 48-bit product of the mantissas, held as
\* H * 2^24 + L, rounded once
Fmul(a, b) ==
    IF a.m = 0 \/ b.m = 0 THEN Zero
    ELSE LET ah  == a.m \div 4096
             al  == a.m % 4096
             bh  == b.m \div 4096
             bl  == b.m % 4096
             mid == ah * bl + al * bh
             low == (mid % 4096) * 4096 + al * bl
             L   == low % 2^24
             H   == ah * bh + mid \div 4096 + low \div 2^24
             big == H >= 2^23
             q   == IF big THEN H ELSE 2 * H + L \div 2^23
             r   == IF big THEN L ELSE L % 2^23
             half == IF big THEN 2^23 ELSE 2^22
             ex  == a.e + b.e + (IF big THEN 24 ELSE 23)
             up  == r > half \/ (r = half /\ q % 2 = 1)
             q2  == IF up THEN q + 1 ELSE q
         IN  IF q2 = 2^24 THEN F(2^23, ex + 1) ELSE F(q2, ex)

\* int -> float conversion of a non-negative int below 2^30
IntToFloat(i) == IF i = 0 THEN Zero ELSE RoundNorm(i, 0)

\* const float valA = 1.0f;  const float valB = 0.01f (0x3C23D70A)
valA == F(8388608, -23)
valB == F(10737418, -30)

\* the closed-form constant valA * valB * n, evaluated in float
Expected(nn) == Fmul(Fmul(valA, valB), IntToFloat(nn))

(***************************************************************************)
(* constantInit(data, size, val): the buffer after the fill loop.          *)
(***************************************************************************)
constantInit(size, val) == [i \in 0..(size - 1) |-> val]

\* malloc'ed storage of `size` elements: content indeterminate
Fresh(size) == [i \in 0..(size - 1) |-> Undef]
NoMem == [i \in {} |-> Undef]

(***************************************************************************)
(* checkCorrectness(v, matSizeX, matSizeY): value = v[0]; scan in          *)
(* row-major order; the first element different from value prints          *)
(* "Something has gone wrong!" and returns, else "All is right with the    *)
(* world." is printed after the scan.  examined counts the comparisons,    *)
(* msgs are the lines printed, verdict is the last of them.                *)
(***************************************************************************)
RECURSIVE CheckScan(_, _, _, _, _, _)

\* mutant of Mismatch: the message is printed and the scan goes on
MismatchNoReturn(v, X, Y, i, j, cnt) ==
    LET rest == CheckScan(v, X, Y, i, j + 1, cnt + 1)
    IN  [rest EXCEPT !.msgs = <<"wrong">> \o @]

\* cout << "Something has gone wrong!" << endl; return;
Mismatch(v, X, Y, i, j, cnt) ==
    [verdict |-> "wrong", examined |-> cnt + 1, msgs |-> <<"wrong">>]

CheckScan(v, X, Y, i, j, cnt) ==
    IF i >= X THEN [verdict |-> "right", examined |-> cnt, msgs |-> <<"right">>]
    ELSE IF j >= Y THEN CheckScan(v, X, Y, i + 1, 0, cnt)
    ELSE IF v[i * Y + j] # v[0]
         THEN Mismatch(v, X, Y, i, j, cnt)
         ELSE CheckScan(v, X, Y, i, j + 1, cnt + 1)

checkCorrectness(v, matSizeX, matSizeY) == CheckScan(v, matSizeX, matSizeY, 0, 0, 0)

(***************************************************************************)
(* matrixMulCUDA: one worker, identified by its block and thread indices.  *)
(***************************************************************************)
\* mutant of KernelRow: the block index is not scaled by blockDim.y
KernelRowUnscaled(w, bdim) == w.by + w.ty

\* int row = blockIdx.y * blockDim.y + threadIdx.y
KernelRow(w, bdim) == w.by * bdim + w.ty
\* int col = blockIdx.x * blockDim.x + threadIdx.x
KernelCol(w, bdim) == w.bx * bdim + w.tx

\* mutant of KernelStep: = in place of +=
KernelStepAssign(acc, A, B, row, col, nn, k) ==
    Fmul(A[row * nn + k], B[k * nn + col])

\* one trip of the k loop: C_val += A[row*n+k] * B[k*n+col]
KernelStep(acc, A, B, row, col, nn, k) ==
    Fadd(acc, Fmul(A[row * nn + k], B[k * nn + col]))

RECURSIVE KernelDot(_, _, _, _, _, _, _)
KernelDot(A, B, row, col, nn, k, acc) ==
    IF k >= nn THEN acc
    ELSE KernelDot(A, B, row, col, nn, k + 1, KernelStep(acc, A, B, row, col, nn, k))

\* the worker touches an address outside a buffer
KernelFaults(A, B, C, row, col, nn) ==
    \/ \E k \in 0..(nn - 1) : (row * nn + k) \notin DOMAIN A \/ (k * nn + col) \notin DOMAIN B
    \/ (row * nn + col) \notin DOMAIN C

\* the threads of a launch <<<grid, threads>>> with dim3 threads(bs, bs, 1),
\* dim3 grid(gs, gs, 1)
Workers(bs, gs) ==
    { [bx |-> bx, by |-> by, tx |-> tx, ty |-> ty] :
        bx \in 0..(gs - 1), by \in 0..(gs - 1), tx \in 0..(bs - 1), ty \in 0..(bs - 1) }

(***************************************************************************)
(* serialMultiply's loops.                                                 *)
(***************************************************************************)
\* one trip of the k loop: sum += h_A[i*n+k] * h_B[k*n+j]
SerialStep(sum, A, B, i, j, nn, k) ==
    Fadd(sum, Fmul(A[i * nn + k], B[k * nn + j]))

RECURSIVE SerialDot(_, _, _, _, _, _, _)
SerialDot(A, B, i, j, nn, k, sum) ==
    IF k >= nn THEN sum
    ELSE SerialDot(A, B, i, j, nn, k + 1, SerialStep(sum, A, B, i, j, nn, k))

\* h_C after the i and j loops
SerialLoops(A, B, nn) ==
    [p \in 0..(nn * nn - 1) |-> SerialDot(A, B, p \div nn, p % nn, nn, 0, Zero)]

(***************************************************************************)
(* State.                                                                  *)
(***************************************************************************)
VARIABLES
    pc,          \* the host thread's position: <<operation, operand>>
    exit,        \* [code, at]: how and where the process ended ("running" before)
    block_size,  \* main's block_size
    grid_size,   \* main's grid_size
    n,           \* main's n, as the int the multipliers receive
    iter,        \* driver iterations started
    prompts,     \* prompts printed so far
    speedups,    \* "Speed up:" lines printed so far
    devq,        \* results of the start-up device queries
    steps,       \* operations executed by the current multiplier call, in order
    err,         \* operations that failed (returned an error or a null pointer)
    hbuf,        \* h_A, h_B, h_C of the current call: unset, null, live, freed
    dbuf,        \* d_A, d_B, d_C of the current call: unset, live, freed
    hostLive,    \* host allocations of the process that are not freed
    mem,         \* content of the six buffers of the current call
    pending,     \* launched kernel workers that have not run yet
    wcount,      \* per element of d_C, the number of worker stores to it
    kfault,      \* a worker touched an address outside its buffers
    launchErr,   \* what the launch left for cudaGetLastError
    timer,       \* the start and stop events: recorded by the host, stamped by the device
    verdict,     \* checkCorrectness's message for each path in this iteration
    nullAccess,  \* host buffers dereferenced while null
    ck,          \* SpecCheck: the checker's input and output
    mu,          \* SpecMul: one output element on both paths
    it,          \* SpecIter: the outputs of the driver iterations run so far
    ad,          \* SpecAdd: the matrix-addition lab's addWithCuda and its kernel
    fl           \* SpecFill: the host-only matrix-addition lab

mainVars  == <<block_size, grid_size, n, iter, prompts, speedups, devq>>
frameVars == <<hbuf, dbuf, hostLive, mem>>
kernVars  == <<pending, wcount, kfault, launchErr, timer>>
ctlVars   == <<pc, exit, steps>>
logVars   == <<err, verdict, nullAccess>>
driverVars == <<ctlVars, mainVars, frameVars, kernVars, logVars>>
labVars == <<it, ad, fl>>
vars == <<driverVars, ck, mu, labVars>>

HostBufs == {"h_A", "h_B", "h_C"}
DevBufs  == {"d_A", "d_B", "d_C"}
CudaErrors == {"cudaSuccess", "cudaError"}
Shapes == (0 - MaxNeg)..MaxShape

Exited == <<"exited", "">>
Running == [code |-> "running", at |-> <<"", "">>]

\* mutant of MMOrder: the start event is recorded before the copies to the
\* device
MMOrderTimedCopies ==
    << <<"malloc", "h_A">>, <<"malloc", "h_B">>,
       <<"constantInit", "h_A">>, <<"constantInit", "h_B">>,
       <<"malloc", "h_C">>,
       <<"cudaMalloc", "d_A">>, <<"cudaMalloc", "d_B">>, <<"cudaMalloc", "d_C">>,
       <<"cudaEventCreate", "start">>, <<"cudaEventCreate", "stop">>,
       <<"cudaEventRecord", "start">>,
       <<"cudaMemcpy", "d_A">>, <<"cudaMemcpy", "d_B">>,
       <<"launch", "matrixMulCUDA">>,
       <<"cudaGetLastError", "">>,
       <<"cudaEventRecord", "stop">>,
       <<"cudaEventSynchronize", "stop">>,
       <<"cudaEventElapsedTime", "">>,
       <<"cudaMemcpy", "h_C">>,
       <<"checkCorrectness", "h_C">>,
       <<"free", "all">> >>

\* the statements of matrixMultiply, in source order
MMOrder ==
    << <<"malloc", "h_A">>, <<"malloc", "h_B">>,
       <<"constantInit", "h_A">>, <<"constantInit", "h_B">>,
       <<"malloc", "h_C">>,
       <<"cudaMalloc", "d_A">>, <<"cudaMalloc", "d_B">>, <<"cudaMalloc", "d_C">>,
       <<"cudaMemcpy", "d_A">>, <<"cudaMemcpy", "d_B">>,
       <<"cudaEventCreate", "start">>, <<"cudaEventCreate", "stop">>,
       <<"cudaEventRecord", "start">>,
       <<"launch", "matrixMulCUDA">>,
       <<"cudaGetLastError", "">>,
       <<"cudaEventRecord", "stop">>,
       <<"cudaEventSynchronize", "stop">>,
       <<"cudaEventElapsedTime", "">>,
       <<"cudaMemcpy", "h_C">>,
       <<"checkCorrectness", "h_C">>,
       <<"free", "all">> >>

\* the statements of serialMultiply, in source order
SMOrder ==
    << <<"serial_malloc", "h_A">>, <<"serial_malloc", "h_B">>,
       <<"serial_constantInit", "h_A">>, <<"serial_constantInit", "h_B">>,
       <<"serial_malloc", "h_C">>,
       <<"serial_loops", "">>,
       <<"serial_checkCorrectness", "h_C">> >>

\* one pass of main's loop body after the two reads
ProgramOrder ==
    << <<"call", "matrixMultiply">> >> \o MMOrder \o
    << <<"call", "serialMultiply">> >> \o SMOrder \o
    << <<"speedup", "">>, <<"while", "">> >>

After(l) ==
    LET i == CHOOSE i \in 1..Len(ProgramOrder) : ProgramOrder[i] = l
    IN  ProgramOrder[i + 1]

\* the statement completes and control goes to the next one
Advance ==
    /\ pc' = After(pc)
    /\ steps' = Append(steps, pc)
    /\ exit' = exit

\* mutant of Fatal: the error is printed and execution goes on
FatalIgnored ==
    /\ pc' = After(pc)
    /\ steps' = Append(steps, pc)
    /\ exit' = exit

\* exit(EXIT_FAILURE) in the error branch of the statement
Fatal ==
    /\ pc' = Exited
    /\ steps' = Append(steps, pc)
    /\ exit' = [code |-> "EXIT_FAILURE", at |-> pc]

\* a store or load through a null pointer: the process is killed
Crash ==
    /\ pc' = Exited
    /\ steps' = Append(steps, pc)
    /\ exit' = [code |-> "SIGSEGV", at |-> pc]

AllUnset(S) == [b \in S |-> "unset"]
NoContent == [b \in HostBufs \cup DevBufs |-> NoMem]
NoVerdict == [cuda |-> "none", serial |-> "none"]

\* cudaEvent_t start, stop: whether cudaEventRecord has put the event into the
\* NULL stream, and the device's timestamp for it, given as the number of
\* statements of matrixMultiply the host had completed at that instant (-1:
\* no timestamp yet)
NoTimer == [startQ |-> FALSE, stopQ |-> FALSE, start |-> -1, stop |-> -1]

\* unsigned int size_A = n * n (also size_B and the element count of C)
Size(nn) == nn * nn

\* the driver's variables when the benchmark process is not part of a run
DriverInit ==
    /\ pc = <<"cudaGetDevice", "">>
    /\ exit = Running
    /\ block_size = 1
    /\ n = 0
    /\ iter = 0
    /\ prompts = 0
    /\ speedups = 0
    /\ devq = [getDevice |-> "none", getProps |-> "none", computeMode |-> "none"]
    /\ steps = << >>
    /\ err = {}
    /\ hbuf = AllUnset(HostBufs)
    /\ dbuf = AllUnset(DevBufs)
    /\ hostLive = 0
    /\ mem = NoContent
    /\ pending = {}
    /\ wcount = [i \in {} |-> 0]
    /\ kfault = FALSE
    /\ launchErr = "cudaSuccess"
    /\ timer = NoTimer
    /\ verdict = NoVerdict
    /\ nullAccess = {}

NotCalled == [verdict |-> "none", examined |-> 0, msgs |-> << >>]
NoCheck == [n |-> 0, v |-> NoMem, out |-> NotCalled]
NoMul == [phase |-> "idle"]
NoIter == [phase |-> "idle"]
NoAdd == [pc |-> <<"idle", "">>, pending |-> {}]
NoFill == [pc |-> <<"idle", "">>]

\* main up to the loop: block_size = 1, n = 0, grid_size not initialised
Init ==
    /\ DriverInit
    /\ grid_size \in Shapes
    /\ ck = NoCheck
    /\ mu = NoMul
    /\ it = NoIter
    /\ ad = NoAdd
    /\ fl = NoFill

(***************************************************************************)
(* main: start-up.                                                         *)
(***************************************************************************)
\* cudaSetDevice(0); error = cudaGetDevice(&devID); an error is printed only
MainGetDevice ==
    /\ pc = <<"cudaGetDevice", "">>
    /\ \E error \in CudaErrors :
         devq' = [devq EXCEPT !.getDevice = error]
    /\ pc' = <<"cudaGetDeviceProperties", "">>
    /\ UNCHANGED <<exit, steps, block_size, grid_size, n, iter, prompts, speedups>>
    /\ UNCHANGED <<frameVars, kernVars, logVars, ck, mu, labVars>>

\* error = cudaGetDeviceProperties(&deviceProp, devID); computeMode is read
\* before error is looked at, so after a failed query it is indeterminate;
\* cudaComputeModeProhibited ends the process with exit(EXIT_SUCCESS)
MainGetDeviceProperties ==
    /\ pc = <<"cudaGetDeviceProperties", "">>
    /\ \E error \in CudaErrors, mode \in {"default", "prohibited"} :
         /\ devq' = [devq EXCEPT !.getProps = error, !.computeMode = mode]
         /\ IF mode = "prohibited"
            THEN /\ pc' = Exited
                 /\ exit' = [code |-> "EXIT_SUCCESS", at |-> pc]
            ELSE /\ pc' = <<"while", "">>
                 /\ exit' = exit
    /\ UNCHANGED <<steps, block_size, grid_size, n, iter, prompts, speedups>>
    /\ UNCHANGED <<frameVars, kernVars, logVars, ck, mu, labVars>>

(***************************************************************************)
(* main: the driver loop.                                                  *)
(***************************************************************************)
\* while (block_size > 0) ... exit(0)
WhileTest ==
    /\ pc = <<"while", "">>
    /\ IF block_size > 0
       THEN /\ pc' = <<"scanf", "block_size">>
            /\ exit' = exit
       ELSE /\ pc' = Exited
            /\ exit' = [code |-> "EXIT_SUCCESS", at |-> <<"exit", "0">>]
    /\ UNCHANGED <<steps, mainVars, frameVars, kernVars, logVars, ck, mu, labVars>>

\* printf("[-] Block Size = "); scanf("%u", &block_size)
ReadBlockSize ==
    /\ pc = <<"scanf", "block_size">>
    /\ iter < MaxIter
    /\ \E v \in Shapes : block_size' = v
    /\ iter' = iter + 1
    /\ prompts' = prompts + 1
    /\ verdict' = NoVerdict
    /\ pc' = <<"scanf", "grid_size">>
    /\ UNCHANGED <<exit, steps, grid_size, n, speedups, devq>>
    /\ UNCHANGED <<frameVars, kernVars, err, nullAccess, ck, mu, labVars>>

\* printf("[-] Grid Size = "); scanf("%u", &grid_size); n = block_size * grid_size
ReadGridSize ==
    /\ pc = <<"scanf", "grid_size">>
    /\ \E v \in Shapes :
         /\ Size(block_size * v) <= MaxWorkers
         /\ grid_size' = v
         /\ n' = block_size * v
    /\ prompts' = prompts + 1
    /\ pc' = <<"call", "matrixMultiply">>
    /\ UNCHANGED <<exit, steps, block_size, iter, speedups, devq>>
    /\ UNCHANGED <<frameVars, kernVars, logVars, ck, mu, labVars>>

\* float cuda_time = matrixMultiply(argc, argv, block_size, grid_size, n):
\* a new frame, its pointers not yet set
CallMatrixMultiply ==
    /\ pc = <<"call", "matrixMultiply">>
    /\ pc' = After(pc)
    /\ steps' = << >>
    /\ hbuf' = AllUnset(HostBufs)
    /\ dbuf' = AllUnset(DevBufs)
    /\ mem' = NoContent
    /\ pending' = {}
    /\ wcount' = [i \in {} |-> 0]
    /\ kfault' = FALSE
    /\ launchErr' = "cudaSuccess"
    /\ timer' = NoTimer
    /\ UNCHANGED <<exit, mainVars, hostLive, logVars, ck, mu, labVars>>

\* int serial_time = serialMultiply(n): a new frame; matrixMultiply's frame,
\* with its event handles, is gone
CallSerialMultiply ==
    /\ pc = <<"call", "serialMultiply">>
    /\ pc' = After(pc)
    /\ steps' = << >>
    /\ hbuf' = AllUnset(HostBufs)
    /\ mem' = NoContent
    /\ timer' = NoTimer
    /\ UNCHANGED <<exit, mainVars, dbuf, hostLive, pending, wcount, kfault, launchErr>>
    /\ UNCHANGED <<logVars, ck, mu, labVars>>

\* cout << "Speed up: " << serial_time / cuda_time
PrintSpeedUp ==
    /\ pc = <<"speedup", "">>
    /\ speedups' = speedups + 1
    /\ pc' = After(pc)
    /\ UNCHANGED <<exit, steps, block_size, grid_size, n, iter, prompts, devq>>
    /\ UNCHANGED <<frameVars, kernVars, logVars, ck, mu, labVars>>

(***************************************************************************)
(* matrixMultiply: host allocations and fills.                             *)
(***************************************************************************)
\* float* h_A = (float*)malloc(mem_size_A), likewise h_B: the result is not
\* tested
HostMalloc(b) ==
    /\ pc = <<"malloc", b>>
    /\ b \in {"h_A", "h_B"}
    /\ \E ok \in BOOLEAN :
         /\ hbuf' = [hbuf EXCEPT ![b] = IF ok THEN "live" ELSE "null"]
         /\ hostLive' = IF ok THEN hostLive + 1 ELSE hostLive
         /\ mem' = [mem EXCEPT ![b] = IF ok THEN Fresh(Size(n)) ELSE NoMem]
         /\ err' = IF ok THEN err ELSE err \cup {pc}
    /\ Advance
    /\ UNCHANGED <<mainVars, dbuf, kernVars, verdict, nullAccess, ck, mu, labVars>>

\* constantInit(h_A, size_A, valA), constantInit(h_B, size_B, valB): the loop
\* stores through the pointer whenever size > 0
ConstantInitCall(b) ==
    /\ pc = <<"constantInit", b>>
    /\ IF hbuf[b] = "null" /\ Size(n) > 0
       THEN /\ Crash
            /\ nullAccess' = nullAccess \cup {b}
            /\ mem' = mem
       ELSE /\ Advance
            /\ nullAccess' = nullAccess
            /\ mem' = [mem EXCEPT ![b] = IF hbuf[b] = "null" THEN NoMem
                                         ELSE constantInit(Size(n), IF b = "h_A" THEN valA ELSE valB)]
    /\ UNCHANGED <<mainVars, hbuf, dbuf, hostLive, kernVars, err, verdict, ck, mu, labVars>>

\* float* h_C = (float*)malloc(mem_size_C); if (h_C == NULL) exit(EXIT_FAILURE)
HostMallocC ==
    /\ pc = <<"malloc", "h_C">>
    /\ \E ok \in BOOLEAN :
         IF ok
         THEN /\ hbuf' = [hbuf EXCEPT !["h_C"] = "live"]
              /\ hostLive' = hostLive + 1
              /\ mem' = [mem EXCEPT !["h_C"] = Fresh(Size(n))]
              /\ err' = err
              /\ Advance
         ELSE /\ hbuf' = [hbuf EXCEPT !["h_C"] = "null"]
              /\ err' = err \cup {pc}
              /\ Fatal
              /\ UNCHANGED <<hostLive, mem>>
    /\ UNCHANGED <<mainVars, dbuf, kernVars, verdict, nullAccess, ck, mu, labVars>>

(***************************************************************************)
(* matrixMultiply: device steps, each followed by                          *)
(* if (error != cudaSuccess) { print; exit(EXIT_FAILURE); }                *)
(***************************************************************************)
\* error = cudaMalloc((void**)&d_X, mem_size_X)
CudaMalloc(b) ==
    /\ pc = <<"cudaMalloc", b>>
    /\ \E error \in CudaErrors :
         IF error = "cudaSuccess"
         THEN /\ dbuf' = [dbuf EXCEPT ![b] = "live"]
              /\ mem' = [mem EXCEPT ![b] = Fresh(Size(n))]
              /\ err' = err
              /\ Advance
         ELSE /\ err' = err \cup {pc}
              /\ Fatal
              /\ UNCHANGED <<dbuf, mem>>
    /\ UNCHANGED <<mainVars, hbuf, hostLive, kernVars, verdict, nullAccess, ck, mu, labVars>>

\* error = cudaMemcpy(d_A, h_A, mem_size_A, cudaMemcpyHostToDevice), likewise B
CudaMemcpyToDevice(b) ==
    /\ pc = <<"cudaMemcpy", b>>
    /\ b \in {"d_A", "d_B"}
    /\ \E error \in CudaErrors :
         IF error = "cudaSuccess"
         THEN /\ mem' = [mem EXCEPT ![b] = mem[IF b = "d_A" THEN "h_A" ELSE "h_B"]]
              /\ err' = err
              /\ Advance
         ELSE /\ err' = err \cup {pc}
              /\ Fatal
              /\ mem' = mem
    /\ UNCHANGED <<mainVars, hbuf, dbuf, hostLive, kernVars, verdict, nullAccess, ck, mu, labVars>>

\* error = cudaEventCreate(&start), cudaEventCreate(&stop)
CudaEventCreate(ev) ==
    /\ pc = <<"cudaEventCreate", ev>>
    /\ \E error \in CudaErrors :
         IF error = "cudaSuccess"
         THEN err' = err /\ Advance
         ELSE err' = err \cup {pc} /\ Fatal
    /\ UNCHANGED <<mainVars, frameVars, kernVars, verdict, nullAccess, ck, mu, labVars>>

\* error = cudaEventRecord(start, NULL): the event is put into the stream
CudaEventRecordStart ==
    /\ pc = <<"cudaEventRecord", "start">>
    /\ \E error \in CudaErrors :
         IF error = "cudaSuccess"
         THEN /\ err' = err
              /\ timer' = [timer EXCEPT !.startQ = TRUE]
              /\ Advance
         ELSE /\ err' = err \cup {pc}
              /\ timer' = timer
              /\ Fatal
    /\ UNCHANGED <<mainVars, frameVars, pending, wcount, kfault, launchErr>>
    /\ UNCHANGED <<verdict, nullAccess, ck, mu, labVars>>

\* dim3 threads(block_size, block_size, 1); dim3 grid(grid_size, grid_size, 1):
\* a dimension of 0, or a negative int converted to unsigned, is no launch
\* configuration any device accepts
ValidLaunch(bs, gs) == bs >= 1 /\ gs >= 1

\* matrixMulCUDA <<< grid, threads >>> (d_C, d_A, d_B, n): the call returns at
\* once; an accepted launch leaves its workers running on the device
Launch ==
    /\ pc = <<"launch", "matrixMulCUDA">>
    /\ \E accepted \in (IF ValidLaunch(block_size, grid_size) THEN BOOLEAN ELSE {FALSE}) :
         IF accepted
         THEN /\ pending' = Workers(block_size, grid_size)
              /\ launchErr' = "cudaSuccess"
         ELSE /\ pending' = {}
              /\ launchErr' = "cudaError"
    /\ wcount' = [i \in DOMAIN mem["d_C"] |-> 0]
    /\ kfault' = FALSE
    /\ Advance
    /\ UNCHANGED <<mainVars, frameVars, timer, logVars, ck, mu, labVars>>

\* error = cudaGetLastError()
CudaGetLastError ==
    /\ pc = <<"cudaGetLastError", "">>
    /\ IF launchErr = "cudaSuccess"
       THEN err' = err /\ Advance
       ELSE err' = err \cup {pc} /\ Fatal
    /\ UNCHANGED <<mainVars, frameVars, kernVars, verdict, nullAccess, ck, mu, labVars>>

\* error = cudaEventRecord(stop, NULL): the event is put into the stream
\* behind the kernel
CudaEventRecordStop ==
    /\ pc = <<"cudaEventRecord", "stop">>
    /\ \E error \in CudaErrors :
         IF error = "cudaSuccess"
         THEN /\ err' = err
              /\ timer' = [timer EXCEPT !.stopQ = TRUE]
              /\ Advance
         ELSE /\ err' = err \cup {pc}
              /\ timer' = timer
              /\ Fatal
    /\ UNCHANGED <<mainVars, frameVars, pending, wcount, kfault, launchErr>>
    /\ UNCHANGED <<verdict, nullAccess, ck, mu, labVars>>

\* mutant of StopEventComplete: the event does not wait for the kernel
StopEventCompleteAtOnce == TRUE

\* the stop event follows the kernel in the NULL stream: it completes once
\* every worker has run, or the kernel was aborted by a fault
StopEventComplete == pending = {} \/ kfault

\* the device reaches the start event: nothing precedes it in the stream (the
\* copies to the device have returned), so it is stamped as soon as it is
\* recorded, while the host goes on
StampStart ==
    /\ pc # Exited
    /\ timer.startQ
    /\ timer.start < 0
    /\ timer' = [timer EXCEPT !.start = Len(steps)]
    /\ UNCHANGED <<ctlVars, mainVars, frameVars, pending, wcount, kfault, launchErr>>
    /\ UNCHANGED <<logVars, ck, mu, labVars>>

\* the device reaches the stop event, after the start event and the kernel
StampStop ==
    /\ pc # Exited
    /\ timer.stopQ
    /\ timer.stop < 0
    /\ timer.start >= 0
    /\ StopEventComplete
    /\ timer' = [timer EXCEPT !.stop = Len(steps)]
    /\ UNCHANGED <<ctlVars, mainVars, frameVars, pending, wcount, kfault, launchErr>>
    /\ UNCHANGED <<logVars, ck, mu, labVars>>

\* error = cudaEventSynchronize(stop): blocks until the event completes and
\* reports a fault of the kernel
CudaEventSynchronize ==
    /\ pc = <<"cudaEventSynchronize", "stop">>
    /\ timer.stop >= 0
    /\ \E error \in (IF kfault THEN {"cudaError"} ELSE CudaErrors) :
         IF error = "cudaSuccess"
         THEN err' = err /\ Advance
         ELSE err' = err \cup {pc} /\ Fatal
    /\ UNCHANGED <<mainVars, frameVars, kernVars, verdict, nullAccess, ck, mu, labVars>>

\* error = cudaEventElapsedTime(&msecTotal, start, stop); printf of the time
CudaEventElapsedTime ==
    /\ pc = <<"cudaEventElapsedTime", "">>
    /\ \E error \in CudaErrors :
         IF error = "cudaSuccess"
         THEN err' = err /\ Advance
         ELSE err' = err \cup {pc} /\ Fatal
    /\ UNCHANGED <<mainVars, frameVars, kernVars, verdict, nullAccess, ck, mu, labVars>>

\* error = cudaMemcpy(h_C, d_C, mem_size_C, cudaMemcpyDeviceToHost)
CudaMemcpyToHost ==
    /\ pc = <<"cudaMemcpy", "h_C">>
    /\ \E error \in CudaErrors :
         IF error = "cudaSuccess"
         THEN /\ mem' = [mem EXCEPT !["h_C"] = mem["d_C"]]
              /\ err' = err
              /\ Advance
         ELSE /\ err' = err \cup {pc}
              /\ Fatal
              /\ mem' = mem
    /\ UNCHANGED <<mainVars, hbuf, dbuf, hostLive, kernVars, verdict, nullAccess, ck, mu, labVars>>

\* mutant of Reported: the failure message ends the process
ReportedFatal(v) == IF v = "wrong" THEN Fatal ELSE Advance

\* checkCorrectness is void and returns to its caller after either message
Reported(v) == Advance

\* checkCorrectness(h_C, n, n)
CheckCudaResult ==
    /\ pc = <<"checkCorrectness", "h_C">>
    /\ verdict' = [verdict EXCEPT !.cuda = checkCorrectness(mem["h_C"], n, n).verdict]
    /\ Reported(checkCorrectness(mem["h_C"], n, n).verdict)
    /\ UNCHANGED <<mainVars, frameVars, kernVars, err, nullAccess, ck, mu, labVars>>

\* free(h_A); free(h_B); free(h_C); cudaFree(d_A); cudaFree(d_B);
\* cudaFree(d_C); return msecTotal
CleanUp ==
    /\ pc = <<"free", "all">>
    /\ hostLive' = hostLive - Cardinality({b \in HostBufs : hbuf[b] = "live"})
    /\ hbuf' = [b \in HostBufs |-> "freed"]
    /\ dbuf' = [b \in DevBufs |-> "freed"]
    /\ mem' = NoContent
    /\ Advance
    /\ UNCHANGED <<mainVars, kernVars, logVars, ck, mu, labVars>>

(***************************************************************************)
(* matrixMulCUDA: one launched worker runs to completion.                  *)
(***************************************************************************)
KernelWorker(w) ==
    /\ pc # Exited
    /\ w \in pending
    /\ ~kfault
    /\ timer.start >= 0
    /\ pending' = pending \ {w}
    /\ LET row == KernelRow(w, block_size)
           col == KernelCol(w, block_size)
       IN  IF KernelFaults(mem["d_A"], mem["d_B"], mem["d_C"], row, col, n)
           THEN /\ kfault' = TRUE
                /\ UNCHANGED <<mem, wcount>>
           ELSE /\ kfault' = FALSE
                /\ mem' = [mem EXCEPT !["d_C"][row * n + col] =
                              KernelDot(mem["d_A"], mem["d_B"], row, col, n, 0, Zero)]
                /\ wcount' = [wcount EXCEPT ![row * n + col] = @ + 1]
    /\ UNCHANGED <<ctlVars, mainVars, hbuf, dbuf, hostLive, launchErr, timer, logVars, ck, mu, labVars>>

(***************************************************************************)
(* serialMultiply.                                                         *)
(***************************************************************************)
\* float* h_A = (float*)malloc(mem_size_A), h_B, h_C: no result is tested
SerialMalloc(b) ==
    /\ pc = <<"serial_malloc", b>>
    /\ \E ok \in BOOLEAN :
         /\ hbuf' = [hbuf EXCEPT ![b] = IF ok THEN "live" ELSE "null"]
         /\ hostLive' = IF ok THEN hostLive + 1 ELSE hostLive
         /\ mem' = [mem EXCEPT ![b] = IF ok THEN Fresh(Size(n)) ELSE NoMem]
         /\ err' = IF ok THEN err ELSE err \cup {pc}
    /\ Advance
    /\ UNCHANGED <<mainVars, dbuf, kernVars, verdict, nullAccess, ck, mu, labVars>>

\* constantInit(h_A, size_A, valA), constantInit(h_B, size_B, valB)
SerialConstantInit(b) ==
    /\ pc = <<"serial_constantInit", b>>
    /\ IF hbuf[b] = "null" /\ Size(n) > 0
       THEN /\ Crash
            /\ nullAccess' = nullAccess \cup {b}
            /\ mem' = mem
       ELSE /\ Advance
            /\ nullAccess' = nullAccess
            /\ mem' = [mem EXCEPT ![b] = IF hbuf[b] = "null" THEN NoMem
                                         ELSE constantInit(Size(n), IF b = "h_A" THEN valA ELSE valB)]
    /\ UNCHANGED <<mainVars, hbuf, dbuf, hostLive, kernVars, err, verdict, ck, mu, labVars>>

\* the three nested loops: h_C[i*n+j] = sum over k of h_A[i*n+k] * h_B[k*n+j]
SerialLoopsRun ==
    /\ pc = <<"serial_loops", "">>
    /\ IF n > 0 /\ hbuf["h_C"] = "null"
       THEN /\ Crash
            /\ nullAccess' = nullAccess \cup {"h_C"}
            /\ mem' = mem
       ELSE /\ Advance
            /\ nullAccess' = nullAccess
            /\ mem' = [mem EXCEPT !["h_C"] = SerialLoops(mem["h_A"], mem["h_B"], n)]
    /\ UNCHANGED <<mainVars, hbuf, dbuf, hostLive, kernVars, err, verdict, ck, mu, labVars>>

\* checkCorrectness(h_C, n, n); return elapsed_time: nothing is freed, the
\* frame's pointers are gone
CheckSerialResult ==
    /\ pc = <<"serial_checkCorrectness", "h_C">>
    /\ verdict' = [verdict EXCEPT !.serial = checkCorrectness(mem["h_C"], n, n).verdict]
    /\ mem' = NoContent
    /\ Reported(checkCorrectness(mem["h_C"], n, n).verdict)
    /\ UNCHANGED <<mainVars, hbuf, dbuf, hostLive, kernVars, err, nullAccess, ck, mu, labVars>>

Next ==
    \/ MainGetDevice
    \/ MainGetDeviceProperties
    \/ WhileTest
    \/ ReadBlockSize
    \/ ReadGridSize
    \/ CallMatrixMultiply
    \/ \E b \in {"h_A", "h_B"} : HostMalloc(b)
    \/ \E b \in {"h_A", "h_B"} : ConstantInitCall(b)
    \/ HostMallocC
    \/ \E b \in DevBufs : CudaMalloc(b)
    \/ \E b \in {"d_A", "d_B"} : CudaMemcpyToDevice(b)
    \/ \E ev \in {"start", "stop"} : CudaEventCreate(ev)
    \/ CudaEventRecordStart
    \/ Launch
    \/ CudaGetLastError
    \/ CudaEventRecordStop
    \/ CudaEventSynchronize
    \/ CudaEventElapsedTime
    \/ CudaMemcpyToHost
    \/ CheckCudaResult
    \/ CleanUp
    \/ \E w \in pending : KernelWorker(w)
    \/ StampStart
    \/ StampStop
    \/ CallSerialMultiply
    \/ \E b \in HostBufs : SerialMalloc(b)
    \/ \E b \in {"h_A", "h_B"} : SerialConstantInit(b)
    \/ SerialLoopsRun
    \/ CheckSerialResult
    \/ PrintSpeedUp

Spec == Init /\ [][Next]_vars

(***************************************************************************)
(* SpecFault: the benchmark process with a fault injected into a result:   *)
(* one element of the h_C that a multiplier is about to check holds a      *)
(* different value.                                                        *)
(***************************************************************************)
CheckLabels == {<<"checkCorrectness", "h_C">>, <<"serial_checkCorrectness", "h_C">>}

CorruptResult ==
    /\ pc \in CheckLabels
    /\ hbuf["h_C"] = "live"
    /\ \A p \in DOMAIN mem["h_C"] : mem["h_C"][p] = mem["h_C"][0]
    /\ \E p \in DOMAIN mem["h_C"] : mem' = [mem EXCEPT !["h_C"][p] = Zero]
    /\ UNCHANGED <<ctlVars, mainVars, hbuf, dbuf, hostLive, kernVars, logVars, ck, mu, labVars>>

NextFault ==
    \/ Next
    \/ CorruptResult

SpecFault == Init /\ [][NextFault]_vars

(***************************************************************************)
(* SpecCheck: checkCorrectness on every n x n matrix over two values, the  *)
(* expected constant and zero.                                             *)
(***************************************************************************)
CheckVals(k) == {Expected(k), Zero}

\* the benchmark process stands still in the specifications of single
\* functions and of the other labs
DriverIdle ==
    /\ DriverInit
    /\ grid_size = 1

InitCheck ==
    /\ DriverIdle
    /\ mu = NoMul
    /\ it = NoIter
    /\ ad = NoAdd
    /\ fl = NoFill
    /\ \E k \in 1..MaxCheckN :
         \E f \in [0..(k * k - 1) -> CheckVals(k)] :
            ck = [n |-> k, v |-> f, out |-> NotCalled]

\* checkCorrectness(v, n, n) is called and prints its message
CheckCall ==
    /\ ck.n > 0
    /\ ck.out = NotCalled
    /\ ck' = [ck EXCEPT !.out = checkCorrectness(ck.v, ck.n, ck.n)]
    /\ UNCHANGED <<driverVars, mu, labVars>>

NextCheck == CheckCall

SpecCheck == InitCheck /\ [][NextCheck]_vars

(***************************************************************************)
(* SpecMul: for a launch shape (bs, gs), n = bs * gs, constant-filled A    *)
(* and B, one worker of the grid runs matrixMulCUDA, then serialMultiply's *)
(* loops compute the element at the address the worker stored to.          *)
(***************************************************************************)
MulA(nn) == constantInit(Size(nn), valA)
MulB(nn) == constantInit(Size(nn), valB)
NoStore == [idx |-> -1, val |-> Undef]

InitMul ==
    /\ DriverIdle
    /\ ck = NoCheck
    /\ it = NoIter
    /\ ad = NoAdd
    /\ fl = NoFill
    /\ \E bs \in 1..MaxMulN, gs \in 1..MaxMulN :
         /\ bs * gs <= MaxMulN
         /\ \E w \in Workers(bs, gs) :
              mu = [phase |-> "kernel", bs |-> bs, gs |-> gs, n |-> bs * gs, w |-> w,
                    k |-> 0, C_val |-> Zero, d_C |-> NoStore,
                    sk |-> 0, sum |-> Zero, h_C |-> NoStore]

\* for (k = 0; k < n; ++k) C_val += A[row*n+k] * B[k*n+col]: one trip
MulKernelLoop ==
    /\ mu.phase = "kernel"
    /\ mu.k < mu.n
    /\ mu' = [mu EXCEPT
                !.C_val = KernelStep(mu.C_val, MulA(mu.n), MulB(mu.n),
                                     KernelRow(mu.w, mu.bs), KernelCol(mu.w, mu.bs), mu.n, mu.k),
                !.k = mu.k + 1]
    /\ UNCHANGED <<driverVars, ck, labVars>>

\* C[row * n + col] = C_val
MulKernelStore ==
    /\ mu.phase = "kernel"
    /\ mu.k >= mu.n
    /\ mu' = [mu EXCEPT
                !.d_C = [idx |-> KernelRow(mu.w, mu.bs) * mu.n + KernelCol(mu.w, mu.bs),
                         val |-> mu.C_val],
                !.phase = "serial"]
    /\ UNCHANGED <<driverVars, ck, labVars>>

\* for (k = 0; k < n; k++) sum += h_A[i*n+k] * h_B[k*n+j]: one trip, in the
\* pass (i, j) of the outer loops that stores to the worker's address
MulSerialLoop ==
    /\ mu.phase = "serial"
    /\ mu.sk < mu.n
    /\ mu' = [mu EXCEPT
                !.sum = SerialStep(mu.sum, MulA(mu.n), MulB(mu.n),
                                   mu.d_C.idx \div mu.n, mu.d_C.idx % mu.n, mu.n, mu.sk),
                !.sk = mu.sk + 1]
    /\ UNCHANGED <<driverVars, ck, labVars>>

\* h_C[i * n + j] = sum
MulSerialStore ==
    /\ mu.phase = "serial"
    /\ mu.sk >= mu.n
    /\ mu' = [mu EXCEPT
                !.h_C = [idx |-> (mu.d_C.idx \div mu.n) * mu.n + (mu.d_C.idx % mu.n),
                         val |-> mu.sum],
                !.phase = "done"]
    /\ UNCHANGED <<driverVars, ck, labVars>>

NextMul ==
    \/ MulKernelLoop
    \/ MulKernelStore
    \/ MulSerialLoop
    \/ MulSerialStore

SpecMul == InitMul /\ [][NextMul]_vars

(***************************************************************************)
(* SpecIter: a sequence of driver iterations in which nothing fails, each  *)
(* multiplier call taken as one step.  Storage handed out by malloc and    *)
(* cudaMalloc holds indeterminate content: it was never written, or it is  *)
(* what a buffer released earlier left behind.                             *)
(***************************************************************************)
Reused(size, old) == [i \in 0..(size - 1) |-> IF i \in DOMAIN old THEN old[i] ELSE Undef]
Garbage(size, released) == {Fresh(size)} \cup { Reused(size, old) : old \in released }

\* the contents of the buffers that the matrixMultiply calls of the runs rs
\* have released
Released(rs) == UNION { {MulA(r.n), MulB(r.n), r.cuda} : r \in rs }

\* C[row * n + col] of a worker
KernelAddr(w, bdim, nn) == KernelRow(w, bdim) * nn + KernelCol(w, bdim)

\* mutant of GridRun: thread (0, 0) of block (0, 0) stores nothing
GridRunSkipsFirst(bs, gs, nn, A, B, C) ==
    [p \in DOMAIN C |->
        LET ws == { w \in Workers(bs, gs) :
                      KernelAddr(w, bs, nn) = p /\ w # [bx |-> 0, by |-> 0, tx |-> 0, ty |-> 0] }
        IN  IF ws = {} THEN C[p]
            ELSE LET w == CHOOSE w \in ws : TRUE
                 IN  KernelDot(A, B, KernelRow(w, bs), KernelCol(w, bs), nn, 0, Zero)]

\* d_C when every worker of the launch has run: an element is what the worker
\* with that address stored, or what it held before when no worker has it
GridRun(bs, gs, nn, A, B, C) ==
    [p \in DOMAIN C |->
        LET ws == { w \in Workers(bs, gs) : KernelAddr(w, bs, nn) = p }
        IN  IF ws = {} THEN C[p]
            ELSE LET w == CHOOSE w \in ws : TRUE
                 IN  KernelDot(A, B, KernelRow(w, bs), KernelCol(w, bs), nn, 0, Zero)]

\* cudaMemcpy(dst, src, mem_size, kind) over the elements of dst
CopyInto(dst, src) == [p \in DOMAIN dst |-> IF p \in DOMAIN src THEN src[p] ELSE dst[p]]

InitIter ==
    /\ DriverIdle
    /\ ck = NoCheck
    /\ mu = NoMul
    /\ ad = NoAdd
    /\ fl = NoFill
    /\ it = [phase |-> "read", bs |-> 0, gs |-> 0, n |-> 0, runs |-> << >>]

\* the two scanf calls and n = block_size * grid_size
IterRead ==
    /\ it.phase = "read"
    /\ Len(it.runs) < MaxRuns
    /\ \E bs \in 1..MaxIterN, gs \in 1..MaxIterN :
         /\ bs * gs <= MaxIterN
         /\ it' = [it EXCEPT !.phase = "cuda", !.bs = bs, !.gs = gs, !.n = bs * gs]
    /\ UNCHANGED <<driverVars, ck, mu, ad, fl>>

\* matrixMultiply(argc, argv, block_size, grid_size, n) from its allocations
\* to its return
IterMatrixMultiply ==
    /\ it.phase = "cuda"
    /\ LET old == Released({ it.runs[i] : i \in 1..Len(it.runs) })
           sz  == Size(it.n)
       IN  \E g \in Garbage(sz, old), gC \in Garbage(sz, old) :
              \* g: what d_A, d_B and h_C hold when allocated; gC: what d_C holds
              LET h_A == constantInit(sz, valA)
                  h_B == constantInit(sz, valB)
                  d_A == CopyInto(g, h_A)
                  d_B == CopyInto(g, h_B)
                  d_C == GridRun(it.bs, it.gs, it.n, d_A, d_B, gC)
                  h_C == CopyInto(g, d_C)
              IN  it' = [it EXCEPT
                           !.runs = Append(@, [bs |-> it.bs, gs |-> it.gs, n |-> it.n,
                                               cuda |-> h_C, serial |-> NoMem]),
                           !.phase = "serial"]
    /\ UNCHANGED <<driverVars, ck, mu, ad, fl>>

\* serialMultiply(n) from its allocations to its return
IterSerialMultiply ==
    /\ it.phase = "serial"
    /\ LET old == Released({ it.runs[i] : i \in 1..Len(it.runs) })
           sz  == Size(it.n)
       IN  \E gC \in Garbage(sz, old) :
              LET h_A == constantInit(sz, valA)
                  h_B == constantInit(sz, valB)
                  h_C == CopyInto(gC, SerialLoops(h_A, h_B, it.n))
              IN  it' = [it EXCEPT !.runs[Len(it.runs)].serial = h_C, !.phase = "read"]
    /\ UNCHANGED <<driverVars, ck, mu, ad, fl>>

NextIter ==
    \/ IterRead
    \/ IterMatrixMultiply
    \/ IterSerialMultiply

SpecIter == InitIter /\ [][NextIter]_vars

(***************************************************************************)
(* The matrix-addition lab: functions.                                     *)
(***************************************************************************)
\* content of int storage that was allocated and never written
Indet == -1
FreshInts(size) == [p \in 0..(size - 1) |-> Indet]

\* mutant of StaticL: L is an automatic variable, 0 at every call
AutoL(L) == 0

\* static int L = 0: initialised once; a call finds the value the last call left
StaticL(L) == L

\* fillMat's loops: v[i*matSizeY + j] = L++ for i, then j, ascending
RECURSIVE FillScan(_, _, _, _, _, _)
FillScan(v, X, Y, i, j, L) ==
    IF i >= X THEN [v |-> v, L |-> L]
    ELSE IF j >= Y THEN FillScan(v, X, Y, i + 1, 0, L)
    ELSE FillScan([v EXCEPT ![i * Y + j] = L], X, Y, i, j + 1, L + 1)

\* fillMat(v, matSizeX, matSizeY), L being the static counter before the
\* call: the buffer and the counter after it
fillMat(v, X, Y, L) == FillScan(v, X, Y, 0, 0, StaticL(L))

\* addMat's loops: c[i*matSizeY + j] = a[i*matSizeY + j] + b[i*matSizeY + j]
RECURSIVE AddScan(_, _, _, _, _, _, _)
AddScan(a, b, c, X, Y, i, j) ==
    IF i >= X THEN c
    ELSE IF j >= Y THEN AddScan(a, b, c, X, Y, i + 1, 0)
    ELSE AddScan(a, b, [c EXCEPT ![i * Y + j] = a[i * Y + j] + b[i * Y + j]], X, Y, i, j + 1)

addMat(a, b, c, X, Y) == AddScan(a, b, c, X, Y, 0, 0)

\* mutant of AddKernelIndex: the row stride is blockDim.x
AddKernelIndexByX(t, blockDim) == t.x * blockDim.x + t.y

\* addKernel: int i = threadIdx.x; int j = threadIdx.y; the element is
\* i * blockDim.y + j
AddKernelIndex(t, blockDim) == t.x * blockDim.y + t.y

\* the threads of addKernel<<<1, dim3(matSizeX, matSizeY, 1)>>>
AddThreads(X, Y) == { [x |-> x, y |-> y] : x \in 0..(X - 1), y \in 0..(Y - 1) }

(***************************************************************************)
(* SpecAdd: MattAdd.cu's main from its call of addWithCuda on, the kernel  *)
(* threads running asynchronously to the host.                             *)
(***************************************************************************)
AddBufs == {"dev_a", "dev_b", "dev_c"}
AddErrors == {"cudaErrorA", "cudaErrorB"}
AddStatuses == {"cudaSuccess"} \cup AddErrors

\* the statements of addWithCuda up to the label Error, in source order
AWBody ==
    << <<"cudaSetDevice", "">>,
       <<"cudaMalloc", "dev_c">>, <<"cudaMalloc", "dev_a">>, <<"cudaMalloc", "dev_b">>,
       <<"cudaMemcpy", "dev_a">>, <<"cudaMemcpy", "dev_b">>,
       <<"launch", "addKernel">>,
       <<"cudaGetLastError", "">>,
       <<"cudaDeviceSynchronize", "">>,
       <<"cudaMemcpy", "c">> >>

\* Error: cudaFree(dev_c); cudaFree(dev_a); cudaFree(dev_b); return cudaStatus
AWError ==
    << <<"cudaFree", "dev_c">>, <<"cudaFree", "dev_a">>, <<"cudaFree", "dev_b">>,
       <<"return", "cudaStatus">> >>

AWOrder ==
    << <<"call", "addWithCuda">> >> \o AWBody \o AWError \o << <<"main", "status">> >>

AWAfter(l) ==
    LET i == CHOOSE i \in 1..Len(AWOrder) : AWOrder[i] = l
    IN  AWOrder[i + 1]

\* mutant of OnStatus: a failure returns at once
OnStatusReturn(status, next) ==
    IF status = "cudaSuccess" THEN next ELSE <<"return", "cudaStatus">>

\* if (cudaStatus != cudaSuccess) { fprintf(...); goto Error; }
OnStatus(status, next) ==
    IF status = "cudaSuccess" THEN next ELSE AWError[1]

\* cudaStatus = <call>: the status is kept and tested
Called(r, status) ==
    [r EXCEPT !.status = status,
              !.calls = Append(@, <<r.pc, status>>),
              !.pc = OnStatus(status, AWAfter(r.pc))]

\* main after fillMat(a, ...), fillMat(b, ...): a and b filled, c allocated
InitAdd ==
    /\ DriverIdle
    /\ ck = NoCheck
    /\ mu = NoMul
    /\ it = NoIter
    /\ fl = NoFill
    /\ \E X \in 1..MaxDim, Y \in 1..MaxDim :
         /\ X * Y <= MaxThreads
         /\ LET fa == fillMat(FreshInts(X * Y), X, Y, 0)
                fb == fillMat(FreshInts(X * Y), X, Y, fa.L)
            IN  ad = [pc |-> <<"call", "addWithCuda">>, X |-> X, Y |-> Y,
                      a |-> fa.v, b |-> fb.v, c |-> FreshInts(X * Y),
                      dev |-> [d \in AddBufs |-> "unset"],
                      dmem |-> [d \in AddBufs |-> << >>],
                      status |-> "unset", calls |-> << >>,
                      frees |-> [d \in AddBufs |-> 0],
                      launchErr |-> "cudaSuccess",
                      pending |-> {}, wcount |-> [p \in 0..(X * Y - 1) |-> 0],
                      ret |-> "none", main |-> "running"]

AddUnchanged == UNCHANGED <<driverVars, ck, mu, it, fl>>

\* cudaError_t cudaStatus = addWithCuda(c, a, b, matSizeX, matSizeY):
\* int *dev_a = 0; int *dev_b = 0; int *dev_c = 0
AddCall ==
    /\ ad.pc = <<"call", "addWithCuda">>
    /\ ad' = [ad EXCEPT !.dev = [d \in AddBufs |-> "null"], !.pc = AWAfter(ad.pc)]
    /\ AddUnchanged

\* cudaStatus = cudaSetDevice(0)
AddSetDevice ==
    /\ ad.pc = <<"cudaSetDevice", "">>
    /\ \E status \in AddStatuses : ad' = Called(ad, status)
    /\ AddUnchanged

\* cudaStatus = cudaMalloc((void**)&dev_x, matSizeX*matSizeY * sizeof(int))
AddCudaMalloc(d) ==
    /\ ad.pc = <<"cudaMalloc", d>>
    /\ \E status \in AddStatuses :
         ad' = IF status = "cudaSuccess"
               THEN [Called(ad, status) EXCEPT !.dev[d] = "live",
                                               !.dmem[d] = FreshInts(ad.X * ad.Y)]
               ELSE Called(ad, status)
    /\ AddUnchanged

\* cudaStatus = cudaMemcpy(dev_a, a, ..., cudaMemcpyHostToDevice), likewise b
AddMemcpyToDevice(d) ==
    /\ ad.pc = <<"cudaMemcpy", d>>
    /\ d \in {"dev_a", "dev_b"}
    /\ \E status \in AddStatuses :
         ad' = IF status = "cudaSuccess"
               THEN [Called(ad, status) EXCEPT !.dmem[d] = IF d = "dev_a" THEN ad.a ELSE ad.b]
               ELSE Called(ad, status)
    /\ AddUnchanged

\* dim3 block_size = dim3(matSizeX, matSizeY, 1);
\* addKernel<<<1, block_size>>>(dev_c, dev_a, dev_b): returns at once, with
\* the threads running or with an error left for cudaGetLastError
AddLaunch ==
    /\ ad.pc = <<"launch", "addKernel">>
    /\ \E left \in AddStatuses :
         ad' = [ad EXCEPT !.pending = IF left = "cudaSuccess" THEN AddThreads(ad.X, ad.Y) ELSE {},
                          !.launchErr = left,
                          !.calls = Append(@, <<ad.pc, "void">>),
                          !.pc = AWAfter(ad.pc)]
    /\ AddUnchanged

\* cudaStatus = cudaGetLastError()
AddGetLastError ==
    /\ ad.pc = <<"cudaGetLastError", "">>
    /\ ad' = Called(ad, ad.launchErr)
    /\ AddUnchanged

\* cudaStatus = cudaDeviceSynchronize(): waits for the kernel to finish
AddDeviceSynchronize ==
    /\ ad.pc = <<"cudaDeviceSynchronize", "">>
    /\ ad.pending = {}
    /\ \E status \in AddStatuses : ad' = Called(ad, status)
    /\ AddUnchanged

\* cudaStatus = cudaMemcpy(c, dev_c, ..., cudaMemcpyDeviceToHost)
AddMemcpyToHost ==
    /\ ad.pc = <<"cudaMemcpy", "c">>
    /\ \E status \in AddStatuses :
         ad' = IF status = "cudaSuccess"
               THEN [Called(ad, status) EXCEPT !.c = ad.dmem["dev_c"]]
               ELSE Called(ad, status)
    /\ AddUnchanged

\* cudaFree(dev_x): its status is not kept; a null handle is accepted
AddCudaFree(d) ==
    /\ ad.pc = <<"cudaFree", d>>
    /\ ad' = [ad EXCEPT !.frees[d] = @ + 1,
                        !.dev[d] = IF @ = "live" THEN "freed" ELSE @,
                        !.dmem[d] = << >>,
                        !.pc = AWAfter(ad.pc)]
    /\ AddUnchanged

\* return cudaStatus
AddReturn ==
    /\ ad.pc = <<"return", "cudaStatus">>
    /\ ad' = [ad EXCEPT !.ret = ad.status, !.pc = <<"main", "status">>]
    /\ AddUnchanged

\* main: if (cudaStatus != cudaSuccess) { fprintf; return 1; } the three
\* printMat calls; cudaDeviceReset(), return 1 when it fails; return 0
AddMainStatus ==
    /\ ad.pc = <<"main", "status">>
    /\ \E reset \in AddStatuses :
         ad' = [ad EXCEPT !.main = IF ad.ret # "cudaSuccess" \/ reset # "cudaSuccess"
                                   THEN "return 1" ELSE "return 0",
                          !.pc = <<"done", "">>]
    /\ AddUnchanged

\* one thread of addKernel runs to completion
AddKernelThread(t) ==
    /\ t \in ad.pending
    /\ LET p == AddKernelIndex(t, [x |-> ad.X, y |-> ad.Y])
       IN  ad' = [ad EXCEPT !.pending = @ \ {t},
                            !.dmem["dev_c"][p] = ad.dmem["dev_a"][p] + ad.dmem["dev_b"][p],
                            !.wcount[p] = @ + 1]
    /\ AddUnchanged

NextAdd ==
    \/ AddCall
    \/ AddSetDevice
    \/ \E d \in AddBufs : AddCudaMalloc(d)
    \/ \E d \in {"dev_a", "dev_b"} : AddMemcpyToDevice(d)
    \/ AddLaunch
    \/ AddGetLastError
    \/ AddDeviceSynchronize
    \/ AddMemcpyToHost
    \/ \E d \in AddBufs : AddCudaFree(d)
    \/ AddReturn
    \/ AddMainStatus
    \/ \E t \in AddThreads(MaxDim, MaxDim) : AddKernelThread(t)

SpecAdd == InitAdd /\ [][NextAdd]_vars

(***************************************************************************)
(* SpecFill: the host-only lab's main, one loop trip of fillMat and of     *)
(* addMat a step.  written lists the stores of fillMat in the order made.  *)
(***************************************************************************)
\* the statements of main after the three malloc calls
FMOrder ==
    << <<"call", "a">>, <<"fillMat", "a">>, <<"call", "b">>, <<"fillMat", "b">>,
       <<"addMat", "">>, <<"printMat", "">>, <<"return", "EXIT_SUCCESS">> >>

FMAfter(l) ==
    LET i == CHOOSE i \in 1..Len(FMOrder) : FMOrder[i] = l
    IN  FMOrder[i + 1]

\* const int matSizeX, matSizeY; a, b, c allocated; L as the program starts
InitFill ==
    /\ DriverIdle
    /\ ck = NoCheck
    /\ mu = NoMul
    /\ it = NoIter
    /\ ad = NoAdd
    /\ \E X \in 1..MaxFillDim, Y \in 1..MaxFillDim :
         fl = [pc |-> <<"call", "a">>, X |-> X, Y |-> Y, L |-> 0,
               a |-> FreshInts(X * Y), b |-> FreshInts(X * Y), c |-> FreshInts(X * Y),
               i |-> 0, j |-> 0, written |-> << >>]

FillUnchanged == UNCHANGED <<driverVars, ck, mu, it, ad>>

\* fillMat(a, matSizeX, matSizeY), fillMat(b, matSizeX, matSizeY): the call
\* finds its static L; int i = 0
FillCall(v) ==
    /\ fl.pc = <<"call", v>>
    /\ fl' = [fl EXCEPT !.L = StaticL(fl.L), !.i = 0, !.j = 0, !.pc = FMAfter(fl.pc)]
    /\ FillUnchanged

\* v[i*matSizeY+j] = L++; j++
FillStore(v) ==
    /\ fl.pc = <<"fillMat", v>>
    /\ fl.i < fl.X
    /\ fl.j < fl.Y
    /\ fl' = [fl EXCEPT ![v][fl.i * fl.Y + fl.j] = fl.L,
                        !.L = fl.L + 1,
                        !.j = fl.j + 1,
                        !.written = Append(@, <<v, fl.i * fl.Y + fl.j, fl.L>>)]
    /\ FillUnchanged

\* the inner loop of fillMat or addMat ends: i++, int j = 0
LoopNextRow ==
    /\ fl.pc[1] \in {"fillMat", "addMat"}
    /\ fl.i < fl.X
    /\ fl.j >= fl.Y
    /\ fl' = [fl EXCEPT !.i = fl.i + 1, !.j = 0]
    /\ FillUnchanged

\* the outer loop of fillMat or addMat ends: the function returns
LoopReturn ==
    /\ fl.pc[1] \in {"fillMat", "addMat"}
    /\ fl.i >= fl.X
    /\ fl' = [fl EXCEPT !.i = 0, !.j = 0, !.pc = FMAfter(fl.pc)]
    /\ FillUnchanged

\* c[i*matSizeY + j] = a[i*matSizeY + j] + b[i*matSizeY + j]; j++
AddMatStore ==
    /\ fl.pc = <<"addMat", "">>
    /\ fl.i < fl.X
    /\ fl.j < fl.Y
    /\ fl' = [fl EXCEPT !.c[fl.i * fl.Y + fl.j] =
                            fl.a[fl.i * fl.Y + fl.j] + fl.b[fl.i * fl.Y + fl.j],
                        !.j = fl.j + 1]
    /\ FillUnchanged

\* printMat(a, ...); printMat(b, ...); printMat(c, ...); return EXIT_SUCCESS
PrintAndReturn ==
    /\ fl.pc = <<"printMat", "">>
    /\ fl' = [fl EXCEPT !.pc = FMAfter(fl.pc)]
    /\ FillUnchanged

NextFill ==
    \/ \E v \in {"a", "b"} : FillCall(v)
    \/ \E v \in {"a", "b"} : FillStore(v)
    \/ LoopNextRow
    \/ LoopReturn
    \/ AddMatStore
    \/ PrintAndReturn

SpecFill == InitFill /\ [][NextFill]_vars

(***************************************************************************)
(* Properties.                                                             *)
(***************************************************************************)
StepSet == { steps[i] : i \in 1..Len(steps) }
Pos(l) == CHOOSE i \in 1..Len(steps) : steps[i] = l
MainLabels ==
    { <<"cudaGetDevice", "">>, <<"cudaGetDeviceProperties", "">>, <<"while", "">>,
      <<"scanf", "block_size">>, <<"scanf", "grid_size">>, <<"call", "matrixMultiply">>,
      <<"call", "serialMultiply">>, <<"speedup", "">> }
DeviceOps ==
    { "cudaMalloc", "cudaMemcpy", "cudaEventCreate", "cudaEventRecord",
      "cudaGetLastError", "cudaEventSynchronize", "cudaEventElapsedTime" }

\* C1: whenever an invocation of matrixMultiply has ended, by returning or by
\* a fatal exit of the process, none of d_A, d_B, d_C is still allocated.
C1_DeviceBuffersReleasedOnEveryExit ==
    (pc = Exited \/ pc = <<"call", "serialMultiply">>) =>
        \A b \in DevBufs : dbuf[b] # "live"

\* C2: checkCorrectness reports success exactly when every element of the
\* matrix equals the expected constant valA * valB * n.
C2_SuccessIffAllExpected ==
    ck.out.verdict # "none" =>
        ((ck.out.verdict = "right") <=> (\A p \in DOMAIN ck.v : ck.v[p] = Expected(ck.n)))

\* C3: when n = block_size * grid_size is not positive, the iteration is
\* rejected before any allocation: no multiplier allocates a host or device
\* buffer for that n.
C3_NonPositiveDimensionRejected ==
    (n <= 0 /\ pc \notin MainLabels) =>
        \A i \in 1..Len(steps) :
            steps[i][1] \notin {"malloc", "cudaMalloc", "serial_malloc"}

\* C4: a failed device step of matrixMultiply is fail-stop: the process has
\* exited with EXIT_FAILURE at that step, the step ran once, the steps before
\* it are exactly the source's earlier statements and none after it ran (no
\* copy or launch after a failed allocation, no copy back, no correctness
\* check), no speed-up was printed for the iteration, and after a rejected
\* launch no worker ran.
C4_DeviceFailureIsFailStop ==
    \A s \in err :
        s[1] \in DeviceOps =>
            /\ pc = Exited
            /\ exit = [code |-> "EXIT_FAILURE", at |-> s]
            /\ steps[Len(steps)] = s
            /\ \A i \in 1..Len(steps) : steps[i] = MMOrder[i]
            /\ verdict.cuda = "none"
            /\ speedups = iter - 1
            /\ s = <<"cudaGetLastError", "">> =>
                   (pending = {} /\ \A p \in DOMAIN wcount : wcount[p] = 0)
            /\ s[1] = "cudaMalloc" =>
                   \A t \in StepSet : t[1] \notin {"cudaMemcpy", "launch"}

\* a transfer failed after d_A and d_B were allocated, and the process is gone
C4_Witness ==
    /\ pc = Exited
    /\ <<"cudaMemcpy", "d_B">> \in err
    /\ n = 2
    /\ Len(steps) = 10

\* C5: for block_size > 0, grid_size > 0 and n = block_size * grid_size the
\* launched grid covers the n x n output exactly: every worker's row and col
\* lie in 0..n-1, every element of C is the store address of exactly one
\* worker, and a worker that has run stored to its own address inside C.
C5_GridCoversOutputExactly ==
    mu.phase # "idle" =>
        LET W == Workers(mu.bs, mu.gs)
            Addr(w) == KernelRow(w, mu.bs) * mu.n + KernelCol(w, mu.bs)
        IN  /\ \A w \in W : /\ KernelRow(w, mu.bs) \in 0..(mu.n - 1)
                            /\ KernelCol(w, mu.bs) \in 0..(mu.n - 1)
            /\ \A p \in 0..(mu.n * mu.n - 1) : Cardinality({ w \in W : Addr(w) = p }) = 1
            /\ mu.d_C # NoStore =>
                   /\ mu.d_C.idx = Addr(mu.w)
                   /\ mu.d_C.idx \in 0..(mu.n * mu.n - 1)
                   /\ \A w \in W \ {mu.w} : Addr(w) # mu.d_C.idx

\* the worker of block (2, 1), thread (1, 1) of a 3 x 3 grid of 2 x 2 blocks
\* has stored C[3][5]
C5_Witness ==
    /\ mu.phase = "done"
    /\ mu.bs = 2 /\ mu.gs = 3
    /\ mu.w = [bx |-> 2, by |-> 1, tx |-> 1, ty |-> 1]
    /\ mu.d_C.idx = 23

C7_WorkersJoinedBeforeReadBack ==
    LET back == <<"cudaMemcpy", "h_C">>
        AtOrPast(l) == pc = l \/ l \in StepSet
    IN  /\ AtOrPast(back) =>
              /\ pending = {}
              /\ ~kfault
              /\ launchErr = "cudaSuccess"
              /\ \A p \in DOMAIN wcount : wcount[p] = 1
              /\ DOMAIN wcount = 0..(n * n - 1)
              /\ {<<"cudaMemcpy", "d_A">>, <<"cudaMemcpy", "d_B">>,
                  <<"launch", "matrixMulCUDA">>, <<"cudaEventSynchronize", "stop">>} \subseteq StepSet
              /\ Pos(<<"cudaMemcpy", "d_A">>) < Pos(<<"launch", "matrixMulCUDA">>)
              /\ Pos(<<"cudaMemcpy", "d_B">>) < Pos(<<"launch", "matrixMulCUDA">>)
              /\ Pos(<<"launch", "matrixMulCUDA">>) < Pos(<<"cudaEventSynchronize", "stop">>)
        /\ back \in StepSet =>
              Pos(<<"cudaEventSynchronize", "stop">>) < Pos(back)
        /\ AtOrPast(<<"checkCorrectness", "h_C">>) => back \in StepSet

\* the nine workers of a 3 x 3 launch have run and the host is about to copy
\* C back
C7_Witness ==
    /\ pc = <<"cudaMemcpy", "h_C">>
    /\ n = 3
    /\ \A p \in 0..8 : wcount[p] = 1

\* C8: between driver iterations, and whenever a multiplier has returned, no
\* host buffer of the process is still allocated.
C8_NoHostBufferOutlivesItsCall ==
    pc \in {<<"call", "serialMultiply">>, <<"speedup", "">>, <<"while", "">>,
            <<"scanf", "block_size">>} =>
        hostLive = 0

\* C9: no host buffer whose allocation failed is ever written or read.
C9_HostAllocationFailureIsFatalBeforeUse ==
    nullAccess = {}

\* C10: once a non-positive block_size has been read no further prompt is
\* printed and the process ends normally; while every block_size read is
\* positive and nothing has failed the process does not end.
C10_LoopEndsOnNonPositiveShape ==
    [][ /\ block_size <= 0 => prompts' = prompts
        /\ (block_size' <= 0 /\ pc' = Exited) =>
               exit' = [code |-> "EXIT_SUCCESS", at |-> <<"exit", "0">>]
        /\ (block_size' > 0 /\ err' = {} /\ devq'.computeMode # "prohibited") =>
               pc' # Exited
      ]_vars

\* C11: checkCorrectness is fail-fast and prints exactly one verdict: a call
\* prints one message; when some element differs from the reference v[0] the
\* message is the failure, and the elements compared are exactly those up to
\* and including the first differing one in row-major order; otherwise the
\* message is the success, printed after all matSizeX * matSizeY comparisons.
C11_CheckerIsFailFastWithOneVerdict ==
    ck.out # NotCalled =>
        LET bad   == { p \in DOMAIN ck.v : ck.v[p] # ck.v[0] }
            first == CHOOSE p \in bad : \A q \in bad : p <= q
        IN  /\ Len(ck.out.msgs) = 1
            /\ ck.out.msgs[1] = ck.out.verdict
            /\ ck.out.verdict \in {"right", "wrong"}
            /\ bad = {} => (ck.out.verdict = "right" /\ ck.out.examined = ck.n * ck.n)
            /\ bad # {} => (ck.out.verdict = "wrong" /\ ck.out.examined = first + 1)

\* a 3 x 3 matrix with differing elements at [1][1] and [2][1]: the scan
\* stopped at the first of them after five comparisons
C11_Witness ==
    /\ ck.n = 3
    /\ ck.v[0] = Expected(3)
    /\ { p \in DOMAIN ck.v : ck.v[p] # ck.v[0] } = {4, 7}
    /\ ck.out.verdict = "wrong"
    /\ ck.out.examined = 5

\* a check of the current iteration has reported a failure
CheckFailed == verdict.cuda = "wrong" \/ verdict.serial = "wrong"

\* the statements from the end of matrixMultiply's check to the loop test;
\* none of them waits for anything
PostCheck ==
    { <<"free", "all">>, <<"call", "serialMultiply">>, <<"speedup", "">>, <<"while", "">> }
        \cup { SMOrder[i] : i \in 1..Len(SMOrder) }

InMatrixMultiply ==
    LET MMLabels == { MMOrder[i] : i \in 1..Len(MMOrder) }
    IN  pc \in MMLabels \/ (pc = Exited /\ exit.at \in MMLabels)

\* C13: the interval between the start and the stop timestamp covers the
\* kernel and no transfer.  The start event is recorded by the statement
\* directly before the launch and stamped after both copies to the device
\* have returned and before any worker runs; the stop event is stamped only
\* when every launched worker has completed; the copy of C back to the host
\* begins only after the stop timestamp; no cudaMemcpy runs between the two
\* timestamps.
C13_TimedIntervalCoversKernelOnly ==
    LET rs     == <<"cudaEventRecord", "start">>
        launch == <<"launch", "matrixMulCUDA">>
        back   == <<"cudaMemcpy", "h_C">>
    IN  InMatrixMultiply =>
        /\ timer.start >= 0 =>
              /\ \A l \in {<<"cudaMemcpy", "d_A">>, <<"cudaMemcpy", "d_B">>, rs} :
                     l \in StepSet /\ Pos(l) <= timer.start
        /\ rs \in StepSet =>
              IF Len(steps) > Pos(rs) THEN steps[Pos(rs) + 1] = launch
              ELSE pc \in {launch, Exited}
        /\ timer.start < 0 => \A p \in DOMAIN wcount : wcount[p] = 0
        /\ timer.stop >= 0 =>
              /\ timer.start >= 0 /\ timer.start <= timer.stop
              /\ launch \in StepSet /\ Pos(launch) <= timer.stop
              /\ pending = {}
              /\ DOMAIN wcount = 0..(n * n - 1)
              /\ \A p \in DOMAIN wcount : wcount[p] = 1
        /\ (pc = back \/ back \in StepSet) => timer.stop >= 0
        /\ (timer.start >= 0 /\ timer.stop < 0) => pc[1] # "cudaMemcpy"
        /\ timer.start >= 0 =>
              \A i \in 1..Len(steps) :
                 steps[i][1] = "cudaMemcpy" =>
                    (i <= timer.start \/ (timer.stop >= 0 /\ i > timer.stop))

\* a 3 x 3 launch: the start event was stamped while the host was already
\* past the launch call, the stop event after the nine workers, and the host
\* is about to copy C back
C13_Witness ==
    /\ pc = <<"cudaMemcpy", "h_C">>
    /\ n = 3
    /\ timer = [startQ |-> TRUE, stopQ |-> TRUE, start |-> 14, stop |-> 16]
    /\ pending = {}

\* C14: a failed start-up query is not fatal: when cudaGetDevice or
\* cudaGetDeviceProperties has returned an error, the process does not end
\* before the first block-size prompt of the driver loop.
C14_DeviceQueryFailureIsNonFatal ==
    (prompts = 0 /\ "cudaError" \in {devq.getDevice, devq.getProps}) => pc # Exited

\* C15: two driver iterations given the same (block_size, grid_size) produce
\* equal output matrices on the accelerated path and equal output matrices
\* on the sequential path, whatever ran in between and whatever the freshly
\* allocated buffers held; no output element is left unwritten.
C15_IterationsAreIdempotent ==
    it.phase # "idle" =>
        /\ \A i \in 1..Len(it.runs), j \in 1..Len(it.runs) :
              (it.runs[i].bs = it.runs[j].bs /\ it.runs[i].gs = it.runs[j].gs) =>
                 /\ it.runs[i].cuda = it.runs[j].cuda
                 /\ (it.runs[i].serial # NoMem /\ it.runs[j].serial # NoMem) =>
                        it.runs[i].serial = it.runs[j].serial
        /\ \A i \in 1..Len(it.runs) :
              /\ DOMAIN it.runs[i].cuda = 0..(Size(it.runs[i].n) - 1)
              /\ \A p \in DOMAIN it.runs[i].cuda : it.runs[i].cuda[p] # Undef
              /\ \A p \in DOMAIN it.runs[i].serial : it.runs[i].serial[p] # Undef

\* shape (1, 2) was run, then (2, 1), then (1, 2) again
C15_Witness ==
    /\ it.phase = "read"
    /\ Len(it.runs) = 3
    /\ <<it.runs[1].bs, it.runs[1].gs>> = <<1, 2>>
    /\ <<it.runs[2].bs, it.runs[2].gs>> = <<2, 1>>
    /\ <<it.runs[3].bs, it.runs[3].gs>> = <<1, 2>>
    /\ it.runs[3].cuda = it.runs[1].cuda
    /\ it.runs[3].serial = it.runs[1].serial
    /\ it.runs[3].serial # NoMem

\* the calls of addWithCuda that returned an error, as positions in ad.calls
AddFailed == { k \in 1..Len(ad.calls) : ad.calls[k][2] \in AddErrors }
AddCleanedUp == ad.pc \in {<<"return", "cudaStatus">>, <<"main", "status">>, <<"done", "">>}

\* C16: every path of addWithCuda ends in the clean-up at the label Error.
\* The calls made are a prefix of the source's statements; a call that fails
\* is the last one made; no device buffer is freed more than once, and when
\* the clean-up is over each of dev_c, dev_a, dev_b has been freed exactly
\* once, as a null handle exactly when its allocation was not reached or
\* failed; the status returned is the failed call's, or cudaSuccess after
\* all ten statements; main returns 1 on any other status than cudaSuccess.
C16_EveryExitPassesTheCleanup ==
    ad.pc # <<"idle", "">> =>
        /\ \A k \in 1..Len(ad.calls) : ad.calls[k][1] = AWBody[k]
        /\ \A k \in AddFailed : k = Len(ad.calls)
        /\ AddFailed # {} => ad.pc \in { AWError[i] : i \in 1..4 } \cup {<<"main", "status">>, <<"done", "">>}
        /\ \A d \in AddBufs : ad.frees[d] <= 1
        /\ ad.pc \in { AWBody[i] : i \in 1..Len(AWBody) } => \A d \in AddBufs : ad.frees[d] = 0
        /\ AddCleanedUp =>
              /\ ad.pending = {}
              /\ \A d \in AddBufs :
                    /\ ad.frees[d] = 1
                    /\ ad.dev[d] = IF <<<<"cudaMalloc", d>>, "cudaSuccess">> \in
                                         { ad.calls[k] : k \in 1..Len(ad.calls) }
                                   THEN "freed" ELSE "null"
        /\ ad.ret # "none" =>
              ad.ret = IF AddFailed = {} THEN "cudaSuccess"
                       ELSE ad.calls[CHOOSE k \in AddFailed : TRUE][2]
        /\ (ad.ret # "none" /\ AddFailed = {}) => Len(ad.calls) = Len(AWBody)
        /\ (ad.main = "return 0") => ad.ret = "cudaSuccess"
        /\ (ad.pc = <<"done", "">> /\ ad.ret # "cudaSuccess") => ad.main = "return 1"

\* the allocation of dev_b failed with cudaErrorB: dev_c and dev_a were
\* freed, dev_b was freed as a null handle, and cudaErrorB was returned
C16_Witness ==
    /\ ad.pc = <<"main", "status">>
    /\ ad.calls[Len(ad.calls)] = << <<"cudaMalloc", "dev_b">>, "cudaErrorB" >>
    /\ ad.dev = [dev_a |-> "freed", dev_b |-> "null", dev_c |-> "freed"]
    /\ ad.frees = [dev_a |-> 1, dev_b |-> 1, dev_c |-> 1]
    /\ ad.ret = "cudaErrorB"

\* C17: the device adder computes what the host adder computes.  For a
\* launch of one block of matSizeX x matSizeY threads every thread's element
\* i * matSizeY + j lies in the matrix and belongs to no other thread; under
\* every interleaving an element of dev_c has been stored at most once, holds
\* a + b once stored and is untouched before; when the kernel is over, dev_c
\* and then c are what addMat writes; a, b and their device copies keep the
\* values fillMat gave them.
C17_DeviceAdderEqualsHostAdder ==
    ad.pc # <<"idle", "">> =>
        LET size     == ad.X * ad.Y
            T        == AddThreads(ad.X, ad.Y)
            Idx(t)   == AddKernelIndex(t, [x |-> ad.X, y |-> ad.Y])
            host     == addMat(ad.a, ad.b, FreshInts(size), ad.X, ad.Y)
            launched == << <<"launch", "addKernel">>, "void" >> \in
                           { ad.calls[k] : k \in 1..Len(ad.calls) }
                        /\ ad.launchErr = "cudaSuccess"
        IN  /\ \A p \in 0..(size - 1) : Cardinality({ t \in T : Idx(t) = p }) = 1
            /\ \A t \in T : Idx(t) \in 0..(size - 1)
            /\ \A p \in 0..(size - 1) :
                  /\ ad.wcount[p] <= 1
                  /\ ad.wcount[p] = 1 <=>
                        (launched /\ \E t \in T \ ad.pending : Idx(t) = p)
                  /\ (ad.dev["dev_c"] = "live" /\ ad.wcount[p] = 1) =>
                        ad.dmem["dev_c"][p] = host[p]
                  /\ (ad.dev["dev_c"] = "live" /\ ad.wcount[p] = 0) =>
                        ad.dmem["dev_c"][p] = Indet
                  /\ host[p] = ad.a[p] + ad.b[p]
                  /\ ad.a[p] = p /\ ad.b[p] = size + p
            /\ (launched /\ ad.pending = {} /\ ad.dev["dev_c"] = "live") =>
                  ad.dmem["dev_c"] = host
            /\ ad.c \in {host, FreshInts(size)}
            /\ << <<"cudaMemcpy", "c">>, "cudaSuccess" >> \in
                   { ad.calls[k] : k \in 1..Len(ad.calls) } => ad.c = host
            /\ \A d \in {"dev_a", "dev_b"} :
                  << <<"cudaMemcpy", d>>, "cudaSuccess" >> \in { ad.calls[k] : k \in 1..Len(ad.calls) }
                     /\ ad.dev[d] = "live"
                  => ad.dmem[d] = IF d = "dev_a" THEN ad.a ELSE ad.b

\* a 2 x 3 launch: the six threads have run, c was copied back and equals
\* the host sum; its last element is 5 + 11
C17_Witness ==
    /\ ad.X = 2 /\ ad.Y = 3
    /\ ad.pc = <<"cudaFree", "dev_c">>
    /\ \A p \in 0..5 : ad.wcount[p] = 1
    /\ ad.c = addMat(ad.a, ad.b, FreshInts(6), 2, 3)
    /\ ad.c[5] = 16

\* C18: fillMat's counter persists across calls.  The k-th store of fillMat
\* in the process, counting from 0, writes the value k, and the stores of a
\* call go through its matrix in row-major order; so once a is filled
\* a[m] = m, once b is filled b[m] = matSizeX * matSizeY + m, and the sum
\* matrix holds c[m] = 2 * m + matSizeX * matSizeY; the matrices are what
\* fillMat and addMat as whole functions yield.
C18_FillCounterPersistsAcrossCalls ==
    fl.pc # <<"idle", "">> =>
        LET size  == fl.X * fl.Y
            Pos18 == CHOOSE k \in 1..Len(FMOrder) : FMOrder[k] = fl.pc
            fa    == fillMat(FreshInts(size), fl.X, fl.Y, 0)
            fb    == fillMat(FreshInts(size), fl.X, fl.Y, fa.L)
        IN  /\ fl.L = Len(fl.written)
            /\ \A k \in 1..Len(fl.written) :
                  fl.written[k] = IF k <= size THEN <<"a", k - 1, k - 1>>
                                  ELSE <<"b", k - 1 - size, k - 1>>
            /\ Pos18 >= 3 => (fl.a = fa.v /\ \A m \in 0..(size - 1) : fl.a[m] = m)
            /\ Pos18 >= 5 => (fl.b = fb.v /\ \A m \in 0..(size - 1) : fl.b[m] = size + m)
            /\ Pos18 >= 5 => fl.L = 2 * size
            /\ Pos18 >= 6 =>
                  /\ fl.c = addMat(fl.a, fl.b, FreshInts(size), fl.X, fl.Y)
                  /\ \A m \in 0..(size - 1) : fl.c[m] = 2 * m + size

\* the 4 x 4 program has ended: a = 0..15, b = 16..31, c[m] = 2 * m + 16
C18_Witness ==
    /\ fl.pc = <<"return", "EXIT_SUCCESS">>
    /\ fl.X = 4 /\ fl.Y = 4
    /\ fl.a[15] = 15
    /\ fl.b[0] = 16 /\ fl.b[15] = 31
    /\ fl.c[0] = 16 /\ fl.c[15] = 46

=============================================================================
